---- MODULE Spec2Model ----
(***************************************************************************)
(* Home NOC: the Target Manager web UI (core/target-manager/static/app.js) *)
(* and the ICMP diagnostic prober it configures.                           *)
(*                                                                         *)
(* JavaScript strings are sequences of one-character strings; JavaScript   *)
(* values that may be null, undefined, NaN, numbers, booleans or strings   *)
(* are tagged records [k |-> kind, v |-> payload].                         *)
(***************************************************************************)
EXTENDS Integers, Sequences, FiniteSets, Bags, TLC

(* ------------------------------------------------------------------ *)
(* JavaScript values and conversions                                   *)
(* ------------------------------------------------------------------ *)

JNull == [k |-> "null"]
JUndef == [k |-> "undefined"]
JNaN == [k |-> "NaN"]
JNum(n) == [k |-> "number", v |-> n]
JBool(b) == [k |-> "boolean", v |-> b]
JStr(s) == [k |-> "string", v |-> s]

\* x == null  (loose equality: null or undefined)
IsNullish(x) == x.k \in {"null", "undefined"}

DigitChars == <<"0", "1", "2", "3", "4", "5", "6", "7", "8", "9">>

IsDigit(c) == \E i \in 1..10 : DigitChars[i] = c

DigitVal(c) == (CHOOSE i \in 1..10 : DigitChars[i] = c) - 1

RECURSIVE DecimalOf(_)
\* the decimal digits of a natural number
DecimalOf(n) ==
    IF n < 10 THEN <<DigitChars[n + 1]>>
    ELSE Append(DecimalOf(n \div 10), DigitChars[(n % 10) + 1])

RECURSIVE ParseDigits(_, _)
ParseDigits(s, acc) ==
    IF s = <<>> THEN acc ELSE ParseDigits(Tail(s), acc * 10 + DigitVal(Head(s)))

IsSpace(c) == c = " "

RECURSIVE TrimLeft(_)
TrimLeft(s) == IF s # <<>> /\ IsSpace(Head(s)) THEN TrimLeft(Tail(s)) ELSE s

RECURSIVE TrimRight(_)
TrimRight(s) ==
    IF s # <<>> /\ IsSpace(s[Len(s)]) THEN TrimRight(SubSeq(s, 1, Len(s) - 1)) ELSE s

\* String.prototype.trim
Trim(s) == TrimRight(TrimLeft(s))

\* String.prototype.includes, for a one-character needle
Includes(s, c) == \E i \in 1..Len(s) : s[i] = c

\* String.prototype.startsWith, for a one-character prefix
StartsWith(s, c) == s # <<>> /\ s[1] = c

\* Number(string): whitespace is trimmed, "" is 0, decimal digits are their
\* value, anything else is NaN
StringToNumber(s) ==
    LET t == Trim(s) IN
    IF t = <<>> THEN JNum(0)
    ELSE IF \A i \in 1..Len(t) : IsDigit(t[i]) THEN JNum(ParseDigits(t, 0))
    ELSE JNaN

\* Number(x)
Number(x) ==
    CASE x.k = "number" -> x
      [] x.k = "NaN" -> JNaN
      [] x.k = "boolean" -> JNum(IF x.v THEN 1 ELSE 0)
      [] x.k = "string" -> StringToNumber(x.v)
      [] x.k = "null" -> JNum(0)
      [] x.k = "undefined" -> JNaN

\* Boolean(x), as a TLA+ boolean
Boolean(x) ==
    CASE x.k = "boolean" -> x.v
      [] x.k = "number" -> x.v # 0
      [] x.k = "string" -> x.v # <<>>
      [] OTHER -> FALSE

\* String(x)
String(x) ==
    CASE x.k = "string" -> x.v
      [] x.k = "number" -> DecimalOf(x.v)
      [] x.k = "NaN" -> <<"N", "a", "N">>
      [] x.k = "boolean" -> IF x.v THEN <<"t", "r", "u", "e">> ELSE <<"f", "a", "l", "s", "e">>
      [] x.k = "null" -> <<"n", "u", "l", "l">>
      [] x.k = "undefined" -> <<"u", "n", "d", "e", "f", "i", "n", "e", "d">>

\* what JSON.stringify writes for a number: NaN becomes null
JsonNumber(x) == IF x.k = "NaN" THEN JNull ELSE x

\* a || ""  for a string-or-null a
OrEmpty(x) == IF Boolean(x) THEN x.v ELSE <<>>

(* ------------------------------------------------------------------ *)
(* Constants of app.js                                                 *)
(* ------------------------------------------------------------------ *)

ICMP_DEFAULTS ==
    [count |-> JNum(4), interval_ms |-> JNum(1000), timeout_ms |-> JNum(1000),
     packet_size |-> JNum(56), df |-> JBool(FALSE)]

P_1s == <<"1", "s">>
P_5s == <<"5", "s">>
P_15s == <<"1", "5", "s">>
P_60s == <<"6", "0", "s">>

SCRAPE_PROFILES == {P_1s, P_5s, P_15s, P_60s}

DEFAULT_SCRAPE_PROFILE == P_15s

\* editId = null
NoId == 0

(* ------------------------------------------------------------------ *)
(* Pure functions of app.js                                            *)
(* ------------------------------------------------------------------ *)

hintFor(type) ==
    CASE type = "http" -> "HTTP: example.com, https://example.com/path (scheme defaults to https)."
      [] type = "tcp" -> "TCP: host:port (port defaults to 443). IPv6: [2001:db8::1]:443"
      [] type = "dns" -> "DNS: resolver:53 (port defaults to 53). Example: 1.1.1.1:53"
      [] type = "icmp" -> "ICMP: hostname or IP (no port). Configure count/interval/timeout/size/DF for loss+jitter."
      [] OTHER -> ""

\* setStatus(message, kind): the status line; arg is the target id the
\* message interpolates (0 when it has none)
Status(text, arg, kind) == [text |-> text, arg |-> arg, error |-> kind = "error"]

\* the local looksLikeIpv6 of updateIcmpDfAvailability, of the input's value
looksLikeIpv6(value) ==
    LET t == Trim(value) IN
    Includes(t, ":") \/ (StartsWith(t, "[") /\ Includes(t, "]"))

\* updateIcmpDfAvailability() that disables the checkbox and leaves it checked
updateIcmpDfAvailability_KeepsChecked(type, value, df) ==
    IF type # "icmp" THEN df
    ELSE [checked |-> df.checked, disabled |-> looksLikeIpv6(value)]

\* updateIcmpDfAvailability(): the DF checkbox after the call, given the
\* current type, the target input's value and the checkbox before the call
updateIcmpDfAvailability(type, value, df) ==
    IF type # "icmp" THEN df
    ELSE [checked |-> IF looksLikeIpv6(value) THEN FALSE ELSE df.checked,
          disabled |-> looksLikeIpv6(value)]

\* effectiveScrapeProfile without the trim
effectiveScrapeProfile_NoTrim(item) ==
    LET raw == IF IsNullish(item.scrape_profile) THEN <<>> ELSE String(item.scrape_profile)
    IN IF raw \in SCRAPE_PROFILES THEN raw ELSE DEFAULT_SCRAPE_PROFILE

effectiveScrapeProfile(item) ==
    LET raw == IF IsNullish(item.scrape_profile) THEN <<>> ELSE String(item.scrape_profile)
        p == Trim(raw)
    IN IF p \in SCRAPE_PROFILES THEN p ELSE DEFAULT_SCRAPE_PROFILE

\* effectiveIcmp with "stored || default" in place of the null tests
effectiveIcmp_Falsy(item) ==
    LET or(stored, default) == IF Boolean(stored) THEN Number(stored) ELSE default IN
    [count |-> or(item.icmp_count, ICMP_DEFAULTS.count),
     interval_ms |-> or(item.icmp_interval_ms, ICMP_DEFAULTS.interval_ms),
     timeout_ms |-> or(item.icmp_timeout_ms, ICMP_DEFAULTS.timeout_ms),
     packet_size |-> or(item.icmp_packet_size, ICMP_DEFAULTS.packet_size),
     df |-> IF Boolean(item.icmp_df) THEN JBool(TRUE) ELSE ICMP_DEFAULTS.df]

effectiveIcmp(item) ==
    [count |-> IF IsNullish(item.icmp_count) THEN ICMP_DEFAULTS.count
               ELSE Number(item.icmp_count),
     interval_ms |-> IF IsNullish(item.icmp_interval_ms) THEN ICMP_DEFAULTS.interval_ms
                     ELSE Number(item.icmp_interval_ms),
     timeout_ms |-> IF IsNullish(item.icmp_timeout_ms) THEN ICMP_DEFAULTS.timeout_ms
                    ELSE Number(item.icmp_timeout_ms),
     packet_size |-> IF IsNullish(item.icmp_packet_size) THEN ICMP_DEFAULTS.packet_size
                     ELSE Number(item.icmp_packet_size),
     df |-> IF IsNullish(item.icmp_df) THEN ICMP_DEFAULTS.df
            ELSE JBool(Boolean(item.icmp_df))]

\* one table row built by renderRows: the item its closures capture, the
\* enabled checkbox, and the text of the scrape and ICMP cells
RenderRow(item) ==
    [item |-> item,
     checkbox |-> Boolean(item.enabled),
     scrapeCell |-> effectiveScrapeProfile(item),
     icmpCell |-> IF item.type = "icmp"
                  THEN LET cfg == effectiveIcmp(item) IN
                       [count |-> String(cfg.count),
                        interval_ms |-> String(cfg.interval_ms),
                        timeout_ms |-> String(cfg.timeout_ms),
                        packet_size |-> String(cfg.packet_size),
                        df |-> IF Boolean(cfg.df) THEN "on" ELSE "off"]
                  ELSE [count |-> <<>>, interval_ms |-> <<>>, timeout_ms |-> <<>>,
                        packet_size |-> <<>>, df |-> ""]]

\* renderRows(items): the rows of the table body (none: "No targets yet.")
renderRows(items) == [i \in 1..Len(items) |-> RenderRow(items[i])]

(* ------------------------------------------------------------------ *)
(* Bounds and the inputs a user or the registry supplies               *)
(* ------------------------------------------------------------------ *)

\* async handlers (each awaiting one fetch) that may be pending at once
MaxInflight == 2

T_host == <<"h">>
T_v6 == <<":", ":", "1">>
T_bracket == <<" ", "[", "a", "]">>

\* what a user types into the target input
TargetTexts == {T_host, T_v6, T_bracket}

\* the tabs a user clicks
ClickedTabs == {"http", "icmp"}

\* what a user fills into the name, the scrape-profile select and the ICMP
\* number inputs
FormFills ==
    {[name |-> <<"n">>, profile |-> P_5s,
      icmp |-> [count |-> <<"9">>, packet_size |-> <<"x">>]]}

\* the messages of the errors api() throws
ErrorMessages == {"HTTP 500"}

Item(id, type, name, target, profile, enabled, icmp) ==
    [id |-> id, type |-> type, name |-> name, target |-> target,
     scrape_profile |-> profile, enabled |-> enabled,
     icmp_count |-> icmp[1], icmp_interval_ms |-> icmp[2], icmp_timeout_ms |-> icmp[3],
     icmp_packet_size |-> icmp[4], icmp_df |-> icmp[5]]

NoIcmp == <<JNull, JNull, JNull, JNull, JNull>>

\* the targets the registry holds at one time or another while the page is open
Targets ==
    {Item(1, "http", JStr(<<"n">>), T_host, JStr(P_5s), JBool(TRUE), NoIcmp),
     Item(2, "icmp", JNull, T_v6, JNull, JBool(FALSE),
          <<JNum(7), JNull, JUndef, JNum(0), JBool(TRUE)>>)}

\* the registry stores numbers 0..MaxStored in a target's ICMP fields
MaxStored == 1

\* what the registry returns in a numeric ICMP field, in icmp_df and in
\* scrape_profile
StoredNumbers == {JNull, JUndef} \cup {JNum(n) : n \in 0..MaxStored}
StoredFlags == {JNull, JUndef, JBool(FALSE), JBool(TRUE)}
StoredProfiles ==
    {JNull, JUndef, JStr(<<>>), JStr(P_1s), JStr(P_5s), JStr(P_15s), JStr(P_60s),
     JStr(<<" ">> \o P_60s \o <<" ">>), JStr(<<"3", "0", "s">>)}

\* one target as the registry may return it: an ICMP target with any stored
\* ICMP fields, or a target of either type with any stored scrape profile
StoredTargets ==
    {Item(1, "icmp", JNull, T_host, JNull, JBool(TRUE), <<c, i, t, p, df>>) :
        c \in StoredNumbers, i \in StoredNumbers, t \in StoredNumbers,
        p \in StoredNumbers, df \in StoredFlags}
    \cup {Item(1, type, JNull, T_host, profile, JBool(TRUE), NoIcmp) :
            type \in ClickedTabs, profile \in StoredProfiles}

(* ------------------------------------------------------------------ *)
(* State                                                               *)
(* ------------------------------------------------------------------ *)

VARIABLES
    currentType,          \* let currentType
    editId,               \* let editId (NoId: null)
    activeTab,            \* the tab carrying class "active"
    sdLink,               \* sdLink.href is /sd/<sdLink>
    hintEl,               \* hintEl.textContent
    statusEl,             \* the status line: Status(text, arg, kind)
    nameInput,            \* nameInput.value
    targetInput,          \* targetInput.value
    scrapeProfileSelect,  \* scrapeProfileSelect.value
    icmpConfigEl,         \* [hidden]
    icmpInputs,           \* value of the count/interval_ms/timeout_ms/packet_size inputs
    icmpDfInput,          \* [checked, disabled]
    submitBtn,            \* submitBtn.textContent
    cancelEditBtn,        \* [hidden]
    tbody,                \* the rendered rows
    tasks,                \* the bag of async handlers suspended in "await api(...)"
    fetched,              \* the requests api() sent in the step taken last
    registry              \* the targets GET /api/targets may return

uiVars == <<currentType, editId, activeTab, sdLink, hintEl, statusEl, nameInput,
            targetInput, scrapeProfileSelect, icmpConfigEl, icmpInputs, icmpDfInput,
            submitBtn, cancelEditBtn, tbody, tasks, fetched, registry>>

\* the ICMP prober
VARIABLES
    identifierTable,      \* IdentifierTable: identifier -> the session awaiting its replies
    nextIdentifier,       \* the wrapping allocator's next candidate
    session,              \* per session: pc, identifier, count, sequence, outcomes, sends
    channel,              \* per session: the replies the reader has published to it
    result                \* per session: the ProbeResult of its last run

probeVars == <<identifierTable, nextIdentifier, session, channel, result>>

vars == <<uiVars, probeVars>>

formVars == <<nameInput, targetInput, scrapeProfileSelect, icmpInputs, icmpDfInput>>
editVars == <<editId, submitBtn, cancelEditBtn>>
tabVars == <<currentType, activeTab, sdLink, hintEl, icmpConfigEl>>

IcmpNumberInputs == {"count", "interval_ms", "timeout_ms", "packet_size"}

\* String(ICMP_DEFAULTS.x) for the four number inputs
DefaultIcmpInputs == [f \in IcmpNumberInputs |-> String(ICMP_DEFAULTS[f])]

(* ------------------------------------------------------------------ *)
(* api(): requests and the handlers awaiting them                      *)
(* ------------------------------------------------------------------ *)

\* api("GET", `/api/targets?type=${type}`)
ListReq(type) == [method |-> "GET", id |-> NoId, type |-> type, body |-> <<>>]

\* api(method, "/api/targets" or `/api/targets/${id}`, body)
WriteReq(method, id, body) == [method |-> method, id |-> id, type |-> "", body |-> body]

\* an async handler suspended in "await api(...)": the handler, the method of
\* the request and, for a GET, the type it lists
Task(handler, req) == [handler |-> handler, method |-> req.method, type |-> req.type]

RECURSIVE Awaiting(_, _)
\* the handlers that sent requests reqs and now await them, as a bag
Awaiting(handler, reqs) ==
    IF reqs = <<>> THEN EmptyBag
    ELSE SetToBag({Task(handler, Head(reqs))}) (+) Awaiting(handler, Tail(reqs))

\* the number of handlers awaiting a response
Pending == BagCardinality(tasks)

(* ------------------------------------------------------------------ *)
(* Handlers of app.js                                                  *)
(* ------------------------------------------------------------------ *)

\* setType(type): a tab click
SetType(type) ==
    /\ Pending < MaxInflight
    /\ currentType' = type
    /\ activeTab' = type
    /\ sdLink' = type
    /\ hintEl' = hintFor(type)
    /\ icmpConfigEl' = [hidden |-> type # "icmp"]
    /\ statusEl' = Status("", 0, "info")
    /\ editId' = NoId
    /\ submitBtn' = "Add"
    /\ cancelEditBtn' = [hidden |-> TRUE]
    /\ nameInput' = <<>>
    /\ targetInput' = <<>>
    /\ scrapeProfileSelect' = DEFAULT_SCRAPE_PROFILE
    /\ icmpInputs' = DefaultIcmpInputs
    /\ icmpDfInput' = updateIcmpDfAvailability(type, <<>>,
                          [icmpDfInput EXCEPT !.checked = Boolean(ICMP_DEFAULTS.df)])
    \* refresh().catch(...)
    /\ fetched' = <<ListReq(type)>>
    /\ tasks' = tasks (+) Awaiting("setType", fetched')
    /\ UNCHANGED <<tbody, registry, probeVars>>

\* the Refresh button
RefreshClick ==
    /\ Pending < MaxInflight
    /\ fetched' = <<ListReq(currentType)>>
    /\ tasks' = tasks (+) Awaiting("refreshBtn", fetched')
    /\ UNCHANGED <<tabVars, editVars, formVars, statusEl, tbody, registry, probeVars>>

\* the Edit click handler without its call of updateIcmpDfAvailability()
EditLoaded_NoUpdate(item) ==
    LET cfg == effectiveIcmp(item) IN
    [editId |-> item.id,
     submitBtn |-> "Save",
     cancelEditBtn |-> [hidden |-> FALSE],
     nameInput |-> OrEmpty(item.name),
     targetInput |-> item.target,
     scrapeProfileSelect |-> effectiveScrapeProfile(item),
     icmpInputs |-> IF item.type = "icmp"
                    THEN [f \in IcmpNumberInputs |-> String(cfg[f])]
                    ELSE icmpInputs,
     icmpDfInput |-> IF item.type = "icmp"
                     THEN [icmpDfInput EXCEPT !.checked = Boolean(cfg.df)]
                     ELSE icmpDfInput,
     statusEl |-> Status("Editing target #", item.id, "info")]

\* the form after the Edit button of a row rendered for item is clicked
EditLoaded(item) ==
    LET cfg == effectiveIcmp(item)
        loaded == IF item.type = "icmp"
                  THEN [icmpDfInput EXCEPT !.checked = Boolean(cfg.df)]
                  ELSE icmpDfInput
    IN [editId |-> item.id,
        submitBtn |-> "Save",
        cancelEditBtn |-> [hidden |-> FALSE],
        nameInput |-> OrEmpty(item.name),
        targetInput |-> item.target,
        scrapeProfileSelect |-> effectiveScrapeProfile(item),
        icmpInputs |-> IF item.type = "icmp"
                       THEN [f \in IcmpNumberInputs |-> String(cfg[f])]
                       ELSE icmpInputs,
        icmpDfInput |-> updateIcmpDfAvailability(currentType, item.target, loaded),
        statusEl |-> Status("Editing target #", item.id, "info")]

\* the Edit button of row r
EditClick(r) ==
    LET f == EditLoaded(tbody[r].item) IN
    /\ editId' = f.editId
    /\ submitBtn' = f.submitBtn
    /\ cancelEditBtn' = f.cancelEditBtn
    /\ nameInput' = f.nameInput
    /\ targetInput' = f.targetInput
    /\ scrapeProfileSelect' = f.scrapeProfileSelect
    /\ icmpInputs' = f.icmpInputs
    /\ icmpDfInput' = f.icmpDfInput
    /\ statusEl' = f.statusEl
    /\ fetched' = <<>>
    /\ UNCHANGED <<tabVars, tbody, tasks, registry, probeVars>>

\* the form after the Cancel button is clicked
EditCancelled ==
    [editId |-> NoId,
     submitBtn |-> "Add",
     cancelEditBtn |-> [hidden |-> TRUE],
     nameInput |-> <<>>,
     targetInput |-> <<>>,
     scrapeProfileSelect |-> DEFAULT_SCRAPE_PROFILE,
     icmpInputs |-> DefaultIcmpInputs,
     icmpDfInput |-> updateIcmpDfAvailability(currentType, <<>>,
                         [icmpDfInput EXCEPT !.checked = Boolean(ICMP_DEFAULTS.df)]),
     statusEl |-> Status("", 0, "info")]

\* the Cancel button of the form
CancelEdit ==
    LET f == EditCancelled IN
    /\ ~cancelEditBtn.hidden
    /\ editId' = f.editId
    /\ submitBtn' = f.submitBtn
    /\ cancelEditBtn' = f.cancelEditBtn
    /\ nameInput' = f.nameInput
    /\ targetInput' = f.targetInput
    /\ scrapeProfileSelect' = f.scrapeProfileSelect
    /\ icmpInputs' = f.icmpInputs
    /\ icmpDfInput' = f.icmpDfInput
    /\ statusEl' = f.statusEl
    /\ fetched' = <<>>
    /\ UNCHANGED <<tabVars, tbody, tasks, registry, probeVars>>

\* the body the submit handler builds
SubmitBody ==
    [name |-> JStr(nameInput), target |-> targetInput,
     scrape_profile |-> JStr(scrapeProfileSelect)]
    @@ (IF currentType = "icmp"
        THEN [icmp_count |-> JsonNumber(Number(JStr(icmpInputs["count"]))),
              icmp_interval_ms |-> JsonNumber(Number(JStr(icmpInputs["interval_ms"]))),
              icmp_timeout_ms |-> JsonNumber(Number(JStr(icmpInputs["timeout_ms"]))),
              icmp_packet_size |-> JsonNumber(Number(JStr(icmpInputs["packet_size"]))),
              icmp_df |-> JBool(icmpDfInput.checked)]
        ELSE <<>>)

\* a submit handler that sends the type with a PATCH too
SubmitRequests_TypeInPatch ==
    IF editId = NoId
    THEN <<WriteReq("POST", NoId, [type |-> currentType] @@ SubmitBody)>>
    ELSE <<WriteReq("PATCH", editId, [type |-> currentType] @@ SubmitBody)>>

\* the requests the submit handler sends before it first awaits
SubmitRequests ==
    IF editId = NoId
    THEN <<WriteReq("POST", NoId, [type |-> currentType] @@ SubmitBody)>>
    ELSE <<WriteReq("PATCH", editId, SubmitBody)>>

\* the form's submit event, up to "await api(...)"
Submit ==
    /\ Pending < MaxInflight
    /\ statusEl' = Status(IF editId = NoId THEN "Adding..." ELSE "Saving...", 0, "info")
    /\ fetched' = SubmitRequests
    /\ tasks' = tasks (+) Awaiting("submit", fetched')
    /\ UNCHANGED <<tabVars, editVars, formVars, tbody, registry, probeVars>>

\* an input event of the target input
InputTarget(text) ==
    /\ text # targetInput
    /\ targetInput' = text
    /\ icmpDfInput' = updateIcmpDfAvailability(currentType, text, icmpDfInput)
    /\ fetched' = <<>>
    /\ UNCHANGED <<tabVars, editVars, nameInput, scrapeProfileSelect, icmpInputs,
                   statusEl, tbody, tasks, registry, probeVars>>

\* the user fills the fields no handler listens to: the name, the scrape
\* profile and the ICMP number inputs
FillForm(fill) ==
    /\ nameInput' = fill.name
    /\ scrapeProfileSelect' = fill.profile
    /\ icmpInputs' = IF icmpConfigEl.hidden THEN icmpInputs
                     ELSE [f \in IcmpNumberInputs |->
                              IF f \in DOMAIN fill.icmp THEN fill.icmp[f] ELSE icmpInputs[f]]
    /\ fetched' = <<>>
    /\ UNCHANGED <<tabVars, editVars, targetInput, icmpDfInput, statusEl, tbody, tasks,
                   registry, probeVars>>

\* the user clicks the DF checkbox
ClickDf ==
    /\ ~icmpConfigEl.hidden
    /\ ~icmpDfInput.disabled
    /\ icmpDfInput' = [icmpDfInput EXCEPT !.checked = ~icmpDfInput.checked]
    /\ fetched' = <<>>
    /\ UNCHANGED <<tabVars, editVars, nameInput, targetInput, scrapeProfileSelect,
                   icmpInputs, statusEl, tbody, tasks, registry, probeVars>>

(* ------------------------------------------------------------------ *)
(* The registry, as api() sees it                                      *)
(* ------------------------------------------------------------------ *)

RECURSIVE ById(_)
\* a set of items as a list, ascending by id
ById(items) ==
    IF items = {} THEN <<>>
    ELSE LET m == CHOOSE x \in items : \A y \in items : x.id <= y.id
         IN <<m>> \o ById(items \ {m})

\* GET /api/targets?type=<type>: the targets of that type the registry holds
\* when it answers. The registry is shared and the page's own writes change
\* it, so it holds any of its targets or none.
ListResponses(type) ==
    {ById(held) : held \in SUBSET {item \in registry : item.type = type}}

(* ------------------------------------------------------------------ *)
(* Continuations: what a handler does when its "await api(...)" ends   *)
(* ------------------------------------------------------------------ *)

\* refresh() returns in the handler of task t: renderRows(items), then the
\* handler's last statement
Refreshed(t, items) ==
    /\ tbody' = renderRows(items)
    /\ statusEl' = IF t.handler = "submit" THEN Status("Saved", 0, "info") ELSE statusEl
    /\ UNCHANGED <<editVars, formVars>>

\* a submit handler that leaves the Cancel button shown after a save
Submitted_CancelShown ==
    [nameInput |-> <<>>,
     targetInput |-> <<>>,
     editId |-> NoId,
     submitBtn |-> "Add",
     cancelEditBtn |-> cancelEditBtn,
     icmpDfInput |-> updateIcmpDfAvailability(currentType, <<>>, icmpDfInput)]

\* the form once the submit handler's write has succeeded
Submitted ==
    [nameInput |-> <<>>,
     targetInput |-> <<>>,
     editId |-> NoId,
     submitBtn |-> "Add",
     cancelEditBtn |-> [hidden |-> TRUE],
     icmpDfInput |-> updateIcmpDfAvailability(currentType, <<>>, icmpDfInput)]

\* "await api(...)" of task t returns
ApiResolved(t) ==
    /\ IF t.method = "GET"
       THEN /\ \E items \in ListResponses(t.type) : Refreshed(t, items)
            /\ fetched' = <<>>
            /\ tasks' = tasks (-) SetToBag({t})
       ELSE \* the submit handler's write is done: it resets the form and
            \* goes on to "await refresh()"
            /\ nameInput' = Submitted.nameInput
            /\ targetInput' = Submitted.targetInput
            /\ editId' = Submitted.editId
            /\ submitBtn' = Submitted.submitBtn
            /\ cancelEditBtn' = Submitted.cancelEditBtn
            /\ icmpDfInput' = Submitted.icmpDfInput
            /\ fetched' = <<ListReq(currentType)>>
            /\ tasks' = (tasks (-) SetToBag({t})) (+) Awaiting(t.handler, fetched')
            /\ UNCHANGED <<scrapeProfileSelect, icmpInputs, statusEl, tbody>>
    /\ UNCHANGED <<tabVars, registry, probeVars>>

\* "await api(...)" of task t throws (fetch fails, or the response is not ok):
\* the handler's catch
ApiRejected(t, message) ==
    /\ statusEl' = Status(message, 0, "error")
    /\ fetched' = <<>>
    /\ tasks' = tasks (-) SetToBag({t})
    /\ UNCHANGED <<tabVars, editVars, formVars, tbody, registry, probeVars>>

(* ------------------------------------------------------------------ *)
(* The enabled checkbox of a row                                       *)
(* ------------------------------------------------------------------ *)

\* the change handler of a row's checkbox, suspended in "await api(...)":
\* the target of its row (item.id), the value it sent, and whether its
\* checkbox is still in the table (renderRows replaces every row; what the
\* handler then does to its checkbox is not displayed)
ToggleTask(req, id, enabled, attached) ==
    [handler |-> "toggle", method |-> req.method, type |-> req.type,
     id |-> id, enabled |-> enabled, attached |-> attached]

\* the row of the table showing target id
RowOf(id) == CHOOSE r \in 1..Len(tbody) : tbody[r].item.id = id

\* the suspended handlers once renderRows has replaced the rows
Detached(pending) ==
    LET Off(t) == IF t.handler = "toggle" THEN [t EXCEPT !.attached = FALSE] ELSE t
        Copies(u) == {t \in BagToSet(pending) : Off(t) = u}
        Sum(ts) == BagCardinality([t \in ts |-> pending[t]])
    IN  [u \in {Off(t) : t \in BagToSet(pending)} |-> Sum(Copies(u))]

\* PATCH /api/targets/<id> {enabled}: the registry stores the value
Enable(items, id, enabled) ==
    {IF item.id = id THEN [item EXCEPT !.enabled = JBool(enabled)] ELSE item : item \in items}

\* the user clicks the checkbox of row r: it flips, and its change handler
\* sends the PATCH
ToggleEnabled(r) ==
    /\ Pending < MaxInflight
    /\ r \in 1..Len(tbody)
    /\ LET checked == ~tbody[r].checkbox
           id == tbody[r].item.id
       IN  /\ tbody' = [tbody EXCEPT ![r].checkbox = checked]
           /\ statusEl' = Status("Saving...", 0, "info")
           /\ fetched' = <<WriteReq("PATCH", id, [enabled |-> JBool(checked)])>>
           /\ tasks' = tasks (+) SetToBag({ToggleTask(fetched'[1], id, checked, TRUE)})
    /\ UNCHANGED <<tabVars, editVars, formVars, registry, probeVars>>

\* "await api(...)" of the change handler t returns: after the PATCH it goes
\* on to "await refresh()", after the refresh it is done
ToggleResolved(t) ==
    /\ t.handler = "toggle"
    /\ IF t.method = "PATCH"
       THEN /\ registry' = Enable(registry, t.id, t.enabled)
            /\ fetched' = <<ListReq(currentType)>>
            /\ tasks' = (tasks (-) SetToBag({t}))
                           (+) SetToBag({ToggleTask(fetched'[1], t.id, t.enabled, t.attached)})
            /\ UNCHANGED <<tbody, statusEl>>
       ELSE /\ \E items \in ListResponses(t.type) : tbody' = renderRows(items)
            /\ statusEl' = Status("Saved", 0, "info")
            /\ fetched' = <<>>
            /\ tasks' = Detached(tasks (-) SetToBag({t}))
            /\ UNCHANGED registry
    /\ UNCHANGED <<tabVars, editVars, formVars, probeVars>>

\* "await api(...)" of the change handler t throws, in the PATCH or in the
\* refresh: the catch flips the checkbox and shows the error
ToggleRejected(t, message) ==
    /\ t.handler = "toggle"
    /\ tbody' = IF t.attached
                THEN [tbody EXCEPT ![RowOf(t.id)].checkbox = ~@]
                ELSE tbody
    /\ statusEl' = Status(message, 0, "error")
    /\ fetched' = <<>>
    /\ tasks' = tasks (-) SetToBag({t})
    /\ UNCHANGED <<tabVars, editVars, formVars, registry, probeVars>>

(* ------------------------------------------------------------------ *)
(* The ICMP prober: Request Gateway, Probe Session, Echo Transport,    *)
(* Statistics Aggregator, after sections 3 to 5 and 7 of its           *)
(* specification (its code is not among the sources)                   *)
(* ------------------------------------------------------------------ *)

NumSessions == 2        \* probe requests served concurrently
MaxCount == 2           \* largest count a request asks for
NumIdentifiers == 3     \* size of the identifier space the allocator wraps in

Sessions == 1..NumSessions
Identifiers == 1..NumIdentifiers
Counts == 0..MaxCount

\* lost / count, kept as the fraction it is
Ratio(num, den) == [num |-> num, den |-> den]
RatioEq(a, b) == a.num * b.den = b.num * a.den
RatioLess(a, b) == a.num * b.den < b.num * a.den

NoResult == [kind |-> "none"]
ClientError == [kind |-> "client error"]

\* a session that no request drives
IdleSession ==
    [pc |-> "idle", identifier |-> 0, count |-> 0, sequence |-> 0,
     outcomes |-> <<>>, sends |-> 0]

Occurrences(outcomes, outcome) ==
    Cardinality({k \in 1..Len(outcomes) : outcomes[k] = outcome})

\* Statistics Aggregator: success only when every echo was answered
Aggregate_AllReplies(count, outcomes) ==
    LET lostCount == Occurrences(outcomes, "lost")
    IN  [kind |-> "result",
         success |-> lostCount = 0,
         loss_ratio |-> Ratio(lostCount, count),
         samples |-> Len(outcomes)]

\* Statistics Aggregator: loss_ratio = lostCount / count,
\* success = lostCount < count
Aggregate(count, outcomes) ==
    LET lostCount == Occurrences(outcomes, "lost")
    IN  [kind |-> "result",
         success |-> lostCount < count,
         loss_ratio |-> Ratio(lostCount, count),
         samples |-> Len(outcomes)]

\* the identifier space wraps
Wrap(i) == ((i - 1) % NumIdentifiers) + 1

\* identifiers no session holds
FreeIdentifiers == {i \in Identifiers : identifierTable[i] = 0}

\* wrapping allocator, collision-checked against the IdentifierTable: the
\* first free identifier from nextIdentifier on
Allocate ==
    LET k == CHOOSE k \in 0..(NumIdentifiers - 1) :
                 /\ Wrap(nextIdentifier + k) \in FreeIdentifiers
                 /\ \A j \in 0..(k - 1) : Wrap(nextIdentifier + j) \notin FreeIdentifiers
    IN  Wrap(nextIdentifier + k)

\* an echo reply as the reader parses it
Echo(identifier, sequence) == [identifier |-> identifier, sequence |-> sequence]

\* the echo replies the raw socket may see
Echoes == {Echo(i, q) : i \in Identifiers, q \in 0..(MaxCount - 1)}

\* the reader hands the reply to every session that runs
Publish_ToAll(packet) ==
    [s \in Sessions |->
        IF session[s].pc \in {"send", "wait"} THEN channel[s] \cup {packet}
        ELSE channel[s]]

\* the reader publishes a reply to the channel the IdentifierTable holds for
\* its identifier; a reply that matches no entry is dropped
Publish(packet) ==
    LET s == identifierTable[packet.identifier]
    IN  IF s = 0 THEN channel ELSE [channel EXCEPT ![s] = @ \cup {packet}]

\* Request Gateway: a request that fails validation gets a client error and
\* no Probe Session
Reject(s, count) ==
    /\ session[s].pc = "idle"
    /\ count < 1
    /\ session' = [session EXCEPT ![s].pc = "rejected"]
    /\ result' = [result EXCEPT ![s] = ClientError]
    /\ UNCHANGED <<identifierTable, nextIdentifier, channel, uiVars>>

\* Request Gateway drives a Probe Session: the session reserves its
\* identifier and enters the IdentifierTable
Start(s, count) ==
    /\ session[s].pc = "idle"
    /\ count >= 1
    /\ FreeIdentifiers # {}
    /\ LET identifier == Allocate
       IN  /\ identifierTable' = [identifierTable EXCEPT ![identifier] = s]
           /\ nextIdentifier' = Wrap(identifier + 1)
           /\ session' = [session EXCEPT ![s] =
                  [pc |-> "send", identifier |-> identifier, count |-> count,
                   sequence |-> 0, outcomes |-> <<>>, sends |-> 0]]
    /\ UNCHANGED <<channel, result, uiVars>>

\* the session's position once the echo at its sequence has an outcome
Recorded(s, outcome) ==
    [session[s] EXCEPT
        !.outcomes = Append(@, outcome),
        !.sequence = IF session[s].sequence + 1 < session[s].count THEN @ + 1 ELSE @,
        !.pc = IF session[s].sequence + 1 < session[s].count THEN "send" ELSE "aggregate"]

\* send one echo at the session's sequence, then wait for its reply
Send(s) ==
    /\ session[s].pc = "send"
    /\ session' = [session EXCEPT ![s].pc = "wait", ![s].sends = @ + 1]
    /\ UNCHANGED <<identifierTable, nextIdentifier, channel, result, uiVars>>

\* SendError: the echo counts as lost, the run goes on
SendFails(s) ==
    /\ session[s].pc = "send"
    /\ session' = [session EXCEPT
           ![s] = [Recorded(s, "lost") EXCEPT !.sends = @ + 1]]
    /\ UNCHANGED <<identifierTable, nextIdentifier, channel, result, uiVars>>

\* the reader takes an echo reply off the raw socket: the answer to an echo
\* of a session that runs, a late answer, or traffic that is not the engine's
Receive(packet) ==
    /\ channel' = Publish(packet)
    /\ UNCHANGED <<identifierTable, nextIdentifier, session, result, uiVars>>

\* awaitReply: the matching reply is in the session's channel
ReplyMatched(s) ==
    /\ session[s].pc = "wait"
    /\ Echo(session[s].identifier, session[s].sequence) \in channel[s]
    /\ session' = [session EXCEPT ![s] = Recorded(s, "reply")]
    /\ UNCHANGED <<identifierTable, nextIdentifier, channel, result, uiVars>>

\* awaitReply: the first deadline that passes ends the run
Timeout_AbortsRun(s) ==
    /\ session[s].pc = "wait"
    /\ session' = [session EXCEPT
           ![s] = [Recorded(s, "lost") EXCEPT !.pc = "aggregate"]]
    /\ UNCHANGED <<identifierTable, nextIdentifier, channel, result, uiVars>>

\* awaitReply: timeout_ms passed without the matching reply
Timeout(s) ==
    /\ session[s].pc = "wait"
    /\ session' = [session EXCEPT ![s] = Recorded(s, "lost")]
    /\ UNCHANGED <<identifierTable, nextIdentifier, channel, result, uiVars>>

\* the run is over: aggregate the outcomes, leave the IdentifierTable
Complete(s) ==
    /\ session[s].pc = "aggregate"
    /\ result' = [result EXCEPT ![s] = Aggregate(session[s].count, session[s].outcomes)]
    /\ identifierTable' = [identifierTable EXCEPT ![session[s].identifier] = 0]
    /\ channel' = [channel EXCEPT ![s] = {}]
    /\ session' = [session EXCEPT ![s].pc = "done", ![s].identifier = 0]
    /\ UNCHANGED <<nextIdentifier, uiVars>>

\* the response is sent and the result discarded; the next request may come
Respond(s) ==
    /\ session[s].pc \in {"done", "rejected"}
    /\ session' = [session EXCEPT ![s] = IdleSession]
    /\ result' = [result EXCEPT ![s] = NoResult]
    /\ UNCHANGED <<identifierTable, nextIdentifier, channel, uiVars>>

\* the engine at startup: no session runs
ProbeIdle ==
    /\ identifierTable = [i \in Identifiers |-> 0]
    /\ nextIdentifier = 1
    /\ session = [s \in Sessions |-> IdleSession]
    /\ channel = [s \in Sessions |-> {}]
    /\ result = [s \in Sessions |-> NoResult]

(* ------------------------------------------------------------------ *)
(* The page                                                            *)
(* ------------------------------------------------------------------ *)

\* the page once the script has run: setType("http") has issued its refresh
PageLoaded ==
    /\ currentType = "http"
    /\ editId = NoId
    /\ activeTab = "http"
    /\ sdLink = "http"
    /\ hintEl = hintFor("http")
    /\ statusEl = Status("", 0, "info")
    /\ nameInput = <<>>
    /\ targetInput = <<>>
    /\ scrapeProfileSelect = DEFAULT_SCRAPE_PROFILE
    /\ icmpConfigEl = [hidden |-> TRUE]
    /\ icmpInputs = DefaultIcmpInputs
    /\ icmpDfInput = [checked |-> FALSE, disabled |-> FALSE]
    /\ submitBtn = "Add"
    /\ cancelEditBtn = [hidden |-> TRUE]
    /\ tbody = <<>>
    /\ fetched = <<ListReq("http")>>
    /\ tasks = Awaiting("setType", fetched)

Init ==
    /\ PageLoaded
    /\ registry = Targets
    /\ ProbeIdle

Next ==
    \/ \E type \in ClickedTabs : SetType(type)
    \/ RefreshClick
    \/ \E r \in 1..Len(tbody) : EditClick(r)
    \/ CancelEdit
    \/ Submit
    \/ \E text \in TargetTexts : InputTarget(text)
    \/ \E fill \in FormFills : FillForm(fill)
    \/ ClickDf
    \/ \E t \in BagToSet(tasks) : ApiResolved(t)
    \/ \E t \in BagToSet(tasks), message \in ErrorMessages : ApiRejected(t, message)

Spec == Init /\ [][Next]_vars

\* the page over a registry that holds one target, stored in any way: the
\* tabs, the table, the Edit and Cancel buttons
InitStored ==
    /\ PageLoaded
    /\ \E item \in StoredTargets : registry = {item}
    /\ ProbeIdle

NextStored ==
    \/ \E type \in ClickedTabs : SetType(type)
    \/ \E r \in 1..Len(tbody) : EditClick(r)
    \/ CancelEdit
    \/ \E t \in BagToSet(tasks) : ApiResolved(t)
    \/ \E t \in BagToSet(tasks), message \in ErrorMessages : ApiRejected(t, message)

StoredSpec == InitStored /\ [][NextStored]_vars

\* the page on its first tab, its list loaded: the enabled checkboxes
ToggleNext ==
    \/ \E t \in BagToSet(tasks) : t.handler # "toggle" /\ ApiResolved(t)
    \/ \E r \in 1..Len(tbody) : ToggleEnabled(r)
    \/ \E t \in BagToSet(tasks) : ToggleResolved(t)
    \/ \E t \in BagToSet(tasks), message \in ErrorMessages : ToggleRejected(t, message)

ToggleSpec == Init /\ [][ToggleNext]_vars

(* ------------------------------------------------------------------ *)
(* Properties of the page                                              *)
(* ------------------------------------------------------------------ *)

IcmpBodyFields ==
    {"icmp_count", "icmp_interval_ms", "icmp_timeout_ms", "icmp_packet_size", "icmp_df"}

\* a target text in bracket notation: "[" ... "]", surrounding blanks aside
BracketNotation(text) ==
    LET t == Trim(text) IN t # <<>> /\ t[1] = "[" /\ \E i \in 1..Len(t) : t[i] = "]"

\* a target text that reads as an IPv6 literal
ReadsAsIpv6(text) == (\E i \in 1..Len(text) : text[i] = ":") \/ BracketNotation(text)

\* the write requests among those sent in the step taken last
WritesFetched == {k \in 1..Len(fetched) : fetched[k].method \in {"POST", "PATCH"}}

\* the type of the registry's target with this id
TypeOfTarget(id) == (CHOOSE item \in registry : item.id = id).type

\* C1: whenever the current type is icmp and the target text contains a colon
\* or is in bracket notation, the DF checkbox is disabled and unchecked.
C1_DfOffForIpv6 ==
    (currentType = "icmp" /\ ReadsAsIpv6(targetInput))
        => (icmpDfInput.disabled /\ ~icmpDfInput.checked)

\* C1 witness: on the icmp tab, the form holds the IPv6 target 2, stored with
\* icmp_df = true, after its Edit button was clicked.
C1_Witness ==
    /\ currentType = "icmp"
    /\ editId = 2
    /\ targetInput = T_v6
    /\ icmpDfInput = [checked |-> FALSE, disabled |-> TRUE]

\* C2: every POST or PATCH the form sends while the current type is icmp and
\* the submitted target reads as IPv6 carries icmp_df = false, and with such a
\* form the submit is not refused.
C2_Ipv6SubmitCarriesDfFalse ==
    /\ \A k \in WritesFetched :
          (currentType = "icmp" /\ ReadsAsIpv6(fetched[k].body.target))
              => ("icmp_df" \in DOMAIN fetched[k].body
                  /\ fetched[k].body.icmp_df = JBool(FALSE))
    /\ (currentType = "icmp" /\ ReadsAsIpv6(targetInput) /\ Pending < MaxInflight)
          => ENABLED Submit

\* C2 witness: the form has just sent the PATCH of target 2, an IPv6 target
\* stored with icmp_df = true, and the PATCH carries icmp_df = false.
C2_Witness ==
    /\ currentType = "icmp"
    /\ \E k \in WritesFetched :
          /\ fetched[k].method = "PATCH"
          /\ fetched[k].id = 2
          /\ fetched[k].body.target = T_v6
          /\ fetched[k].body.icmp_df = JBool(FALSE)
    /\ \E item \in registry : item.id = 2 /\ item.icmp_df = JBool(TRUE)

\* C7: a form submit sends exactly one request, a write: POST /api/targets
\* with type = the current type when editId is null, else PATCH
\* /api/targets/{editId} without a type field; its body holds the five icmp_*
\* fields if the current type is icmp and none of them otherwise.
C7_SubmitSendsOneWrite ==
    [][Submit =>
          /\ Len(fetched') = 1
          /\ LET req == fetched'[1] IN
             /\ IF editId = NoId
                THEN /\ req.method = "POST"
                     /\ req.id = NoId
                     /\ "type" \in DOMAIN req.body
                     /\ req.body.type = currentType
                ELSE /\ req.method = "PATCH"
                     /\ req.id = editId
                     /\ "type" \notin DOMAIN req.body
             /\ IF currentType = "icmp"
                THEN IcmpBodyFields \subseteq DOMAIN req.body
                ELSE IcmpBodyFields \cap DOMAIN req.body = {}
    ]_vars

\* C7 witness: on the icmp tab, editing target 2, the form has just sent one
\* PATCH of target 2 whose body holds the icmp_* fields and no type.
C7_Witness ==
    /\ currentType = "icmp"
    /\ editId = 2
    /\ Len(fetched) = 1
    /\ fetched[1].method = "PATCH"
    /\ fetched[1].id = 2
    /\ IcmpBodyFields \subseteq DOMAIN fetched[1].body
    /\ "type" \notin DOMAIN fetched[1].body

\* C9: the edit mode is consistent: editId is null iff the submit button
\* reads "Add" (it reads "Save" otherwise) iff the Cancel button is hidden.
C9_EditModeConsistent ==
    /\ submitBtn \in {"Add", "Save"}
    /\ (editId = NoId) <=> (submitBtn = "Add")
    /\ (editId = NoId) <=> cancelEditBtn.hidden

\* C9 witness: a submit failed while a target was being edited, and the form
\* is still in edit mode.
C9_Witness ==
    /\ statusEl.error
    /\ editId # NoId
    /\ submitBtn = "Save"
    /\ ~cancelEditBtn.hidden

\* C10: whenever editId is not null it names a target of the current type, and
\* a PATCH the form sends carries the icmp_* fields iff its target is an ICMP
\* target.
C10_EditIdOfCurrentType ==
    /\ editId # NoId => TypeOfTarget(editId) = currentType
    /\ \A k \in WritesFetched :
          fetched[k].method = "PATCH"
              => ((IcmpBodyFields \subseteq DOMAIN fetched[k].body)
                    <=> (TypeOfTarget(fetched[k].id) = "icmp"))

(* ------------------------------------------------------------------ *)
(* Properties of the table and the edit form                           *)
(* ------------------------------------------------------------------ *)

\* what a stored ICMP field is shown as: the default when it is null or
\* missing, the stored value otherwise
StoredOr(stored, default) == IF stored \in {JNull, JUndef} THEN default ELSE stored

\* the ICMP settings of an item, by the defaults 4, 1000, 1000, 56, false
ExpectedIcmp(item) ==
    [count |-> StoredOr(item.icmp_count, JNum(4)),
     interval_ms |-> StoredOr(item.icmp_interval_ms, JNum(1000)),
     timeout_ms |-> StoredOr(item.icmp_timeout_ms, JNum(1000)),
     packet_size |-> StoredOr(item.icmp_packet_size, JNum(56)),
     df |-> StoredOr(item.icmp_df, JBool(FALSE))]

\* the ICMP inputs of the form holding exactly the defaults
IcmpInputsAtDefaults ==
    /\ icmpInputs = [count |-> <<"4">>, interval_ms |-> <<"1", "0", "0", "0">>,
                     timeout_ms |-> <<"1", "0", "0", "0">>, packet_size |-> <<"5", "6">>]
    /\ ~icmpDfInput.checked

\* C3: for every target item and each ICMP field independently, effectiveIcmp
\* returns the default (4, 1000, 1000, 56, false) when the stored field is
\* null or missing and the stored value otherwise, which is what the table
\* shows; and after any tab switch or Cancel the form's ICMP inputs hold
\* exactly these defaults.
C3_IcmpDefaults ==
    /\ [](/\ \A item \in registry : effectiveIcmp(item) = ExpectedIcmp(item)
          /\ \A r \in 1..Len(tbody) :
                tbody[r].item.type = "icmp" =>
                    LET e == ExpectedIcmp(tbody[r].item) IN
                    tbody[r].icmpCell =
                        [count |-> String(e.count), interval_ms |-> String(e.interval_ms),
                         timeout_ms |-> String(e.timeout_ms),
                         packet_size |-> String(e.packet_size),
                         df |-> IF e.df.v THEN "on" ELSE "off"])
    /\ [][((\E type \in ClickedTabs : SetType(type)) \/ CancelEdit)
             => IcmpInputsAtDefaults']_vars

\* C3 witness: the ICMP tab has been clicked, the table shows an ICMP target
\* whose count is missing and whose packet_size is stored as 0 and df as true
\* (count=4, size=0, df=on), and the form, not in edit mode, holds the
\* defaults.
C3_Witness ==
    /\ currentType = "icmp"
    /\ Len(tbody) = 1
    /\ tbody[1].item.icmp_count = JUndef
    /\ tbody[1].item.icmp_packet_size = JNum(0)
    /\ tbody[1].item.icmp_df = JBool(TRUE)
    /\ tbody[1].icmpCell.count = <<"4">>
    /\ tbody[1].icmpCell.packet_size = <<"0">>
    /\ tbody[1].icmpCell.df = "on"
    /\ editId = NoId
    /\ IcmpInputsAtDefaults

\* the scrape profile of an item: its stored value, trimmed, when that is
\* one of 1s, 5s, 15s, 60s, and 15s otherwise
ExpectedProfile(item) ==
    LET stored == item.scrape_profile
        known == {<<"1", "s">>, <<"5", "s">>, <<"1", "5", "s">>, <<"6", "0", "s">>}
    IN IF stored.k = "string" /\ Trim(stored.v) \in known
       THEN Trim(stored.v)
       ELSE <<"1", "5", "s">>

\* C8: for every target item, the scrape profile shown in the table and
\* loaded into the edit form is one of 1s, 5s, 15s, 60s: the stored value,
\* trimmed, when that is one of the four, and 15s for any other, null or
\* missing value.
C8_ScrapeProfileShown ==
    /\ \A r \in 1..Len(tbody) : tbody[r].scrapeCell = ExpectedProfile(tbody[r].item)
    /\ \A r \in 1..Len(tbody) :
          editId = tbody[r].item.id
              => scrapeProfileSelect = ExpectedProfile(tbody[r].item)

\* C8 witness: the table shows a target stored with the profile " 60s " as
\* 60s, and its Edit button has loaded 60s into the form.
C8_Witness ==
    /\ Len(tbody) = 1
    /\ tbody[1].item.scrape_profile = JStr(<<" ", "6", "0", "s", " ">>)
    /\ tbody[1].scrapeCell = <<"6", "0", "s">>
    /\ editId = tbody[1].item.id
    /\ scrapeProfileSelect = <<"6", "0", "s">>

(* ------------------------------------------------------------------ *)
(* Properties of the page under requests in flight                     *)
(* ------------------------------------------------------------------ *)

\* C11: once every in-flight request has completed, the rows rendered in the
\* table are targets of the current type, whatever the tab switches and
\* Refresh clicks were and in whatever order the list responses arrived.
C11_RowsOfCurrentType ==
    Pending = 0 => \A r \in 1..Len(tbody) : tbody[r].item.type = currentType

\* C14: after Edit is clicked on a row, editId stays that row's id until a
\* submit started after that click succeeds (which is then a PATCH), Cancel
\* is clicked, Edit is clicked on another row, or the tab is switched; the
\* completion of a submit that was in flight at the click does not end it.
C14_EditLastsUntilEnded ==
    [][(editId # NoId /\ editId' # editId) =>
          \/ \E type \in ClickedTabs : SetType(type)
          \/ CancelEdit
          \/ \E r \in 1..Len(tbody) : EditClick(r)
          \/ \E t \in BagToSet(tasks) :
                 t.handler = "submit" /\ t.method = "PATCH" /\ ApiResolved(t)
    ]_vars

(* ------------------------------------------------------------------ *)
(* Properties of the enabled checkbox                                  *)
(* ------------------------------------------------------------------ *)

\* the saved value of target id's enabled flag in the registry
StoredEnabled(items, id) == Boolean((CHOOSE item \in items : item.id = id).enabled)

\* C12: when the PATCH of a toggle fails, the checkbox is set back to the
\* value it had before that toggle (the opposite of the value the PATCH
\* sent) and the status shows the error, also when the checkbox was toggled
\* again while the PATCH was in flight.
C12_FailedToggleReverts ==
    [][\A t \in BagToSet(tasks), message \in ErrorMessages :
          (/\ t.handler = "toggle"
           /\ t.method = "PATCH"
           /\ t.attached
           /\ ToggleRejected(t, message))
              => /\ tbody'[RowOf(t.id)].checkbox = ~t.enabled
                 /\ statusEl' = Status(message, 0, "error")
    ]_vars

\* the change handler t is the only one suspended for its target
OnlyToggle(t) ==
    /\ tasks[t] = 1
    /\ \A u \in BagToSet(tasks) : (u.handler = "toggle" /\ u.id = t.id) => u = t

\* C13: when the handler of a toggle has finished (its refresh rendered the
\* list, or its PATCH or its refresh failed), the checkbox of its target
\* shows the enabled value the registry stores: it is reverted only if the
\* registry did not apply the change.
C13_CheckboxShowsStored ==
    [][\A t \in BagToSet(tasks) :
          (/\ t.handler = "toggle"
           /\ OnlyToggle(t)
           /\ \/ t.method = "GET" /\ ToggleResolved(t)
              \/ t.attached /\ \E message \in ErrorMessages : ToggleRejected(t, message))
              => \A r \in 1..Len(tbody') :
                     tbody'[r].item.id = t.id
                         => tbody'[r].checkbox = StoredEnabled(registry', t.id)
    ]_vars

(* ------------------------------------------------------------------ *)
(* The prober under concurrent requests                                *)
(* ------------------------------------------------------------------ *)

ProbeInit ==
    /\ PageLoaded
    /\ registry = Targets
    /\ ProbeIdle

\* what a session does on its own: send, wait, aggregate
SessionStep(s) ==
    \/ Send(s)
    \/ SendFails(s)
    \/ ReplyMatched(s)
    \/ Timeout(s)
    \/ Complete(s)

ProbeNext ==
    \/ \E s \in Sessions, count \in Counts : Reject(s, count)
    \/ \E s \in Sessions, count \in Counts : Start(s, count)
    \/ \E s \in Sessions : Send(s)
    \/ \E s \in Sessions : SendFails(s)
    \/ \E packet \in Echoes : Receive(packet)
    \/ \E s \in Sessions : ReplyMatched(s)
    \/ \E s \in Sessions : Timeout(s)
    \/ \E s \in Sessions : Complete(s)
    \/ \E s \in Sessions : Respond(s)

ProbeSpec == ProbeInit /\ [][ProbeNext]_vars

\* every session is its own thread of execution and every wait has a
\* deadline: a session that can take a step takes one
ProbeLiveSpec ==
    ProbeSpec /\ \A s \in Sessions : WF_vars(SessionStep(s))

\* the prober serving one request at a time: every run a session can make
SoloNext ==
    \/ \E count \in Counts : Reject(1, count)
    \/ \E count \in Counts : Start(1, count)
    \/ Send(1)
    \/ SendFails(1)
    \/ \E packet \in Echoes : Receive(packet)
    \/ ReplyMatched(1)
    \/ Timeout(1)
    \/ Complete(1)
    \/ Respond(1)

SoloSpec == ProbeInit /\ [][SoloNext]_vars

(* ------------------------------------------------------------------ *)
(* Properties of the prober                                            *)
(* ------------------------------------------------------------------ *)

Running(s) == session[s].pc \in {"send", "wait", "aggregate"}

\* C4: a reply carrying identifier i is delivered only to the session that
\* holds i in the IdentifierTable, never to another session: every reply in
\* a session's channel carries the identifier that session reserved, the
\* IdentifierTable names that session for it, and no two running sessions
\* hold the same identifier.
C4_NoCrossAttribution ==
    /\ \A s \in Sessions : \A packet \in channel[s] :
           /\ Running(s)
           /\ packet.identifier = session[s].identifier
           /\ identifierTable[packet.identifier] = s
    /\ \A s, o \in Sessions :
           Running(s) /\ Running(o) /\ s # o
               => session[s].identifier # session[o].identifier

\* C4 witness: two sessions run at once under distinct identifiers, and the
\* reader has delivered to each a reply carrying its identifier
C4_Witness ==
    \E s, o \in Sessions :
        /\ s # o
        /\ Running(s) /\ Running(o)
        /\ session[s].identifier # session[o].identifier
        /\ \E packet \in channel[s] : packet.identifier = session[s].identifier
        /\ \E packet \in channel[o] : packet.identifier = session[o].identifier

\* C5: the reported loss ratio equals (count - successfulReplies) / count
\* exactly, and success is true iff loss_ratio < 1.0, that is iff at least
\* one reply arrived, for every count >= 1 and every sequence of outcomes.
C5_LossRatioExact ==
    \A s \in Sessions :
        session[s].pc = "done" =>
            LET count == session[s].count
                successfulReplies == Occurrences(session[s].outcomes, "reply")
            IN  /\ result[s].kind = "result"
                /\ count >= 1
                /\ RatioEq(result[s].loss_ratio, Ratio(count - successfulReplies, count))
                /\ result[s].success <=> RatioLess(result[s].loss_ratio, Ratio(1, 1))
                /\ result[s].success <=> successfulReplies >= 1

\* C5 witness: a finished run in which one echo was answered and another was
\* lost, reported as a success
C5_Witness ==
    \E s \in Sessions :
        /\ session[s].pc = "done"
        /\ Occurrences(session[s].outcomes, "reply") >= 1
        /\ Occurrences(session[s].outcomes, "lost") >= 1
        /\ result[s].success

============================================================================
